---- MODULE Spec2Model ----
(***************************************************************************)
(* Model of src/src/reporters/teamsReporter.ts: the TeamsReporter class.   *)
(*                                                                         *)
(* The reporter records every finished test attempt (onTestEnd), and at    *)
(* run end (onEnd) classifies each test from its recorded attempts,        *)
(* builds the MessageCard and posts it to the webhook with a bounded       *)
(* retry loop and exponential backoff (sendWebhookWithRetry).              *)
(*                                                                         *)
(* A step of the model is what runs between two suspension points of the   *)
(* JavaScript event loop: a synchronous handler as a whole, or the part of *)
(* an async function between two awaits.                                   *)
(***************************************************************************)
EXTENDS Integers, Sequences, FiniteSets, TLC

(***************************************************************************)
(* Program constants (teamsReporter.ts:20-25, 108).                        *)
(***************************************************************************)
MAX_FAILED_TESTS_DISPLAY == 10
MAX_FLAKY_TESTS_DISPLAY == 5
ERROR_TRUNCATE_LENGTH == 200
MAX_BACKOFF_MS == 5000
BACKOFF_BASE_MS == 1000
ON_END_MAX_RETRIES == 3

(***************************************************************************)
(* Bounds of the model.                                                    *)
(***************************************************************************)
\* onTestEnd events of one run
MaxEvents == 3
\* largest maxRetries argument of a direct call of sendWebhookWithRetry
MaxRetriesArg == 5
\* longest error message given to truncateError
MaxErrorLen == 5
\* largest maxLength given to truncateError
MaxTruncLen == 6
\* most tests of one run that end failed or timed out
MaxFailedListed == 12
\* most flaky tests of one run
MaxFlakyListed == 7

(***************************************************************************)
(* Input domains.                                                          *)
(***************************************************************************)
\* TestCase.id values of the run; the title of a test is modelled by its id
TestIds == {"t1", "t2"}
\* TestResult.status values the reporter classifies
Statuses == {"passed", "failed", "skipped", "timedOut"}
\* TestResult.retry values delivered by the host
RetryIndices == {0, 1}
\* HTTP statuses the endpoint may answer with
HttpStatuses == {200, 302, 404, 500}
\* axios error codes of a request that got no answer
TransportCodes == {"ECONNABORTED", "ENOTFOUND", "ECONNREFUSED"}

\* characters of an error message
Chars == {"a", "b"}

\* What one axios.post can end in: an HTTP answer, an axios transport
\* error, or some other thrown value that is no axios error.
HttpResponse(s) == [type |-> "http", status |-> s, code |-> "-"]
TransportError(c) == [type |-> "axios", status |-> 0, code |-> c]
OtherError == [type |-> "error", status |-> 0, code |-> "-"]
SendResults ==
    {HttpResponse(s) : s \in HttpStatuses}
        \cup {TransportError(c) : c \in TransportCodes}
        \cup {OtherError}

VARIABLES
    webhookUrl,      \* TRUE iff TEAMS_WEBHOOK_URL was set at construction
    phase,           \* lifecycle of the host: "constructed", "running", "ended"
    testAttempts,    \* the Map, as its entries in insertion order
    testResults,     \* the five counters
    failedTests,     \* failed-test details, in push order
    flakyTests,      \* flaky-test details, in push order
    classified,      \* for each processed test, the branch processTestResults took
    messageCard,     \* the payload built by onEnd, "none" before
    pc,              \* sendWebhookWithRetry: "idle", "awaiting", "waiting", "done"
    maxRetries,      \* its maxRetries argument
    attempt,         \* its loop variable
    sends,           \* number of axios.post calls made
    waitLog,         \* the backoff waits taken, in ms, in order
    responses,       \* what each axios.post ended in, in order
    outcome,         \* "None", "Delivered", "Abandoned"
    raised,          \* TRUE iff an error escaped to the caller
    posted,          \* the body of each axios.post made, in order
    recordCalls,     \* per test id, the number of onTestEnd calls made for it
    truncation       \* one call of truncateError: its arguments and its result

storeVars == <<testAttempts, testResults, failedTests, flakyTests, classified, messageCard>>
deliveryVars == <<pc, maxRetries, attempt, sends, waitLog, responses, outcome, raised>>
auxVars == <<posted, recordCalls, truncation>>
vars == <<webhookUrl, phase, storeVars, deliveryVars, auxVars>>


(***************************************************************************)
(* Helpers.                                                                *)
(***************************************************************************)
Min(a, b) == IF a <= b THEN a ELSE b

\* mutant: the whole array is taken
SliceAll(s, n) == s

\* Array.prototype.slice(0, n)
Slice(s, n) == SubSeq(s, 1, Min(Len(s), n))

RECURSIVE Pow2(_)
\* Math.pow(2, n) for n >= 0
Pow2(n) == IF n <= 0 THEN 1 ELSE 2 * Pow2(n - 1)

(***************************************************************************)
(* The attempt store: testAttempts (a Map keeps its entries in insertion   *)
(* order, and processTestResults iterates in that order).                  *)
(***************************************************************************)
\* Map.has(testId)
Has(map, testId) == \E i \in 1..Len(map) : map[i].id = testId

\* the position of testId's entry
IndexOf(map, testId) == CHOOSE i \in 1..Len(map) : map[i].id = testId

\* Map.get(testId).results
ResultsOf(map, testId) == map[IndexOf(map, testId)].results

\* mutant: the entry is set anew on every call
EnsureEntryAlwaysSet(map, testId) ==
    IF Has(map, testId)
    THEN [map EXCEPT ![IndexOf(map, testId)].results = <<>>]
    ELSE Append(map, [id |-> testId, results |-> <<>>])

\* if (!has) set(testId, {test, results: []})
EnsureEntry(map, testId) ==
    IF Has(map, testId) THEN map ELSE Append(map, [id |-> testId, results |-> <<>>])

\* mutant: the attempt is stored in the slot of the attempt before it
PushResultOverLast(map, testId, result) ==
    LET i == IndexOf(map, testId)
        n == Len(map[i].results)
    IN  [map EXCEPT ![i].results =
            IF n = 0 THEN <<result>> ELSE [@ EXCEPT ![n] = result]]

\* get(testId).results.push({result, retry: result.retry})
PushResult(map, testId, result) ==
    LET i == IndexOf(map, testId)
    IN  [map EXCEPT ![i].results = Append(@, result)]

\* the whole of onTestEnd on the store
Record(map, testId, result) == PushResult(EnsureEntry(map, testId), testId, result)

(***************************************************************************)
(* processTestResults.                                                     *)
(***************************************************************************)
\* mutant: the first attempt is taken for the final one
FirstResult(results) == results[1]

\* mutant: the attempt with the highest retry index decides
FinalResultHighestRetry(results) ==
    results[CHOOSE k \in 1..Len(results) :
                \A j \in 1..Len(results) :
                    \/ results[j].retry < results[k].retry
                    \/ (results[j].retry = results[k].retry /\ j <= k)]

\* results[results.length - 1].result
FinalResult(results) == results[Len(results)]

\* mutant: a timed-out attempt is not counted as a failure
HadFailuresFailedOnly(results) ==
    \E i \in 1..Len(results) : results[i].status = "failed"

\* results.some(r => status === 'failed' || status === 'timedOut')
HadFailures(results) ==
    \E i \in 1..Len(results) : results[i].status \in {"failed", "timedOut"}

\* hadFailures && results.length > 1
IsFlaky(results) == HadFailures(results) /\ Len(results) > 1

\* the branch of the if/else-if chain that one test takes
Classify(results) ==
    LET final == FinalResult(results)
    IN  IF final.status = "passed"
        THEN IF IsFlaky(results) THEN "Flaky" ELSE "Passed"
        ELSE IF final.status = "failed" THEN "Failed"
        ELSE IF final.status = "skipped" THEN "Skipped"
        ELSE IF final.status = "timedOut" THEN "TimedOut"
        ELSE "Unclassified"

\* mutant: no detail entry is kept
CaptureNothing(list, testId) == list

\* captureFailedTest: push one detail entry for the test
CaptureFailedTest(list, testId) == Append(list, [title |-> testId])

\* one iteration of the loop body, on the accumulated summary
ProcessEntry(acc, entry) ==
    LET c == Classify(entry.results)
        counts == acc.testResults
    IN  [testResults |->
            [passed   |-> counts.passed   + (IF c = "Passed" THEN 1 ELSE 0),
             failed   |-> counts.failed   + (IF c = "Failed" THEN 1 ELSE 0),
             skipped  |-> counts.skipped  + (IF c = "Skipped" THEN 1 ELSE 0),
             flaky    |-> counts.flaky    + (IF c = "Flaky" THEN 1 ELSE 0),
             timedout |-> counts.timedout + (IF c = "TimedOut" THEN 1 ELSE 0)],
         failedTests |->
            IF c \in {"Failed", "TimedOut"}
            THEN CaptureFailedTest(acc.failedTests, entry.id)
            ELSE acc.failedTests,
         flakyTests |->
            IF c = "Flaky"
            THEN Append(acc.flakyTests,
                        [title |-> entry.id, attempts |-> Len(entry.results)])
            ELSE acc.flakyTests,
         classified |-> acc.classified @@ (entry.id :> c)]

RECURSIVE ProcessFrom(_, _, _)
\* the for-of loop over testAttempts.entries(), from entry i on
ProcessFrom(map, i, acc) ==
    IF i > Len(map) THEN acc
    ELSE ProcessFrom(map, i + 1, ProcessEntry(acc, map[i]))

\* processTestResults: adds to the counters and lists the reporter holds
ProcessTestResults(map, acc) == ProcessFrom(map, 1, acc)

(***************************************************************************)
(* buildMessageCard.                                                       *)
(***************************************************************************)
\* getOverallStatus().text
GetOverallStatus(counts) ==
    IF counts.failed > 0 \/ counts.timedout > 0 THEN "FAILED"
    ELSE IF counts.flaky > 0 THEN "UNSTABLE"
    ELSE "PASSED"

\* mutant: the flaky counter is looked at before the failures
GetThemeColorFlakyFirst(counts) ==
    IF counts.flaky > 0 THEN "ffc107"
    ELSE IF counts.failed > 0 \/ counts.timedout > 0 THEN "dc3545"
    ELSE "28a745"

\* getThemeColor()
GetThemeColor(counts) ==
    IF counts.failed > 0 \/ counts.timedout > 0 THEN "dc3545"
    ELSE IF counts.flaky > 0 THEN "ffc107"
    ELSE "28a745"

\* the fields of the card that depend on the summary
BuildMessageCard(counts, failed, flaky) ==
    [summary     |-> GetOverallStatus(counts),
     themeColor  |-> GetThemeColor(counts),
     totalTests  |-> counts.passed + counts.failed + counts.skipped
                        + counts.flaky + counts.timedout,
     totalFailed |-> counts.failed + counts.timedout,
     failedBlock |-> Len(failed) > 0,
     failedFacts |-> Slice(failed, MAX_FAILED_TESTS_DISPLAY),
     moreFailed  |-> IF Len(failed) > MAX_FAILED_TESTS_DISPLAY
                     THEN Len(failed) - MAX_FAILED_TESTS_DISPLAY ELSE 0,
     flakyBlock  |-> Len(flaky) > 0,
     flakyFacts  |-> Slice(flaky, MAX_FLAKY_TESTS_DISPLAY)]

(***************************************************************************)
(* truncateError. A string is the sequence of its characters.              *)
(***************************************************************************)
\* String.prototype.substring(0, end): end is clamped to 0..length
Substring0(str, end) ==
    SubSeq(str, 1, IF end < 0 THEN 0 ELSE Min(end, Len(str)))

\* '...'
Ellipsis == <<".", ".", ".">>

\* mutant: no room is left for the ellipsis
TruncateErrorNoRoom(error, maxLength) ==
    IF Len(error) <= maxLength THEN error
    ELSE Substring0(error, maxLength) \o Ellipsis

\* truncateError(error, maxLength)
TruncateError(error, maxLength) ==
    IF Len(error) <= maxLength THEN error
    ELSE Substring0(error, maxLength - 3) \o Ellipsis

(***************************************************************************)
(* sendWebhookWithRetry.                                                   *)
(***************************************************************************)
\* validateStatus: (status) => status < 500
ValidateStatus(status) == status < 500

\* axios.post resolves with a response instead of throwing
Resolves(r) == r.type = "http" /\ ValidateStatus(r.status)

\* mutant: the lower bound is exclusive
IsSuccessAbove200(status) == status > 200 /\ status < 300

\* response.status >= 200 && response.status < 300
IsSuccess(status) == status >= 200 /\ status < 300

\* mutant: only 400 is taken for a client error
IsClientErrorOnly400(status) == status = 400

\* response.status >= 400 && response.status < 500
IsClientError(status) == status >= 400 /\ status < 500

\* mutant: what is no axios error is rethrown
CaughtAxiosOnly(r) == r.type # "error"

\* catch (error): the clause has no filter and rethrows nothing
Caught(r) == TRUE

\* mutant: the wait is also taken after the last attempt
ShouldWaitAlways(a, max) == a <= max

\* attempt < maxRetries, the guard of the backoff wait
ShouldWait(a, max) == a < max

\* mutant: the cap is missing
WaitTimeUncapped(a) == BACKOFF_BASE_MS * Pow2(a - 1)

\* Math.min(1000 * Math.pow(2, attempt - 1), MAX_BACKOFF_MS)
WaitTime(a) == Min(BACKOFF_BASE_MS * Pow2(a - 1), MAX_BACKOFF_MS)

\* mutant: one iteration too many
LoopCondOneMore(a, max) == a <= max + 1

\* attempt <= maxRetries, the loop condition
LoopCond(a, max) == a <= max

\* mutant: the promise of the wait is never resolved
BackoffNeverResumes(p) == FALSE

\* setTimeout(resolve, waitTime): the timer resolves the awaited promise
BackoffResumes(p) == p = "waiting"

\* mutant: a retry sends a card rebuilt with the attempt counted in
PostBodyRebuilt(card, a) ==
    IF a = 1 THEN card ELSE [card EXCEPT !.totalTests = @ + a - 1]

\* axios.post(this.webhookUrl, messageCard, ...): the body of attempt a
PostBody(card, a) == card

\* The loop test for iteration a and, when it holds, the body up to the
\* await of axios.post; when it fails, the statement after the loop.
EnterIteration(a, max, card) ==
    /\ attempt' = a
    /\ IF LoopCond(a, max)
       THEN /\ pc' = "awaiting" /\ sends' = sends + 1 /\ outcome' = outcome
            /\ posted' = Append(posted, PostBody(card, a))
       ELSE /\ pc' = "done" /\ sends' = sends /\ outcome' = "Abandoned"
            /\ posted' = posted

\* A direct call sendWebhookWithRetry(messageCard, m).
SendWebhookWithRetry ==
    /\ pc = "idle"
    /\ webhookUrl
    /\ \E m \in 1..MaxRetriesArg :
          /\ maxRetries' = m
          /\ EnterIteration(1, m, messageCard)
    /\ UNCHANGED <<webhookUrl, phase, storeVars, waitLog, responses, raised,
                   recordCalls, truncation>>

\* What the loop does when the awaited axios.post of the current attempt ends in r.
AfterPost(r) ==
    /\ responses' = Append(responses, r)
    /\ IF Resolves(r)
       THEN IF IsSuccess(r.status)
            THEN /\ pc' = "done"
                 /\ outcome' = "Delivered"
                 /\ UNCHANGED <<attempt, sends, waitLog, raised, posted>>
            ELSE IF IsClientError(r.status)
            THEN /\ pc' = "done"
                 /\ outcome' = "Abandoned"
                 /\ UNCHANGED <<attempt, sends, waitLog, raised, posted>>
            ELSE /\ EnterIteration(attempt + 1, maxRetries, messageCard)
                 /\ UNCHANGED <<waitLog, raised>>
       ELSE IF Caught(r)
            THEN IF ShouldWait(attempt, maxRetries)
                 THEN /\ pc' = "waiting"
                      /\ waitLog' = Append(waitLog, WaitTime(attempt))
                      /\ UNCHANGED <<attempt, sends, outcome, raised, posted>>
                 ELSE /\ EnterIteration(attempt + 1, maxRetries, messageCard)
                      /\ UNCHANGED <<waitLog, raised>>
            ELSE /\ pc' = "done"
                 /\ raised' = TRUE
                 /\ UNCHANGED <<attempt, sends, waitLog, outcome, posted>>
    /\ UNCHANGED <<webhookUrl, phase, storeVars, maxRetries, recordCalls, truncation>>

\* The awaited axios.post of the current attempt ends in r.
Response ==
    /\ pc = "awaiting"
    /\ \E r \in SendResults : AfterPost(r)

\* The backoff timer fires and the loop goes on to the next attempt.
BackoffElapsed ==
    /\ BackoffResumes(pc)
    /\ EnterIteration(attempt + 1, maxRetries, messageCard)
    /\ UNCHANGED <<webhookUrl, phase, storeVars, maxRetries, waitLog, responses, raised,
                   recordCalls, truncation>>

(***************************************************************************)
(* The reporter's handlers.                                                *)
(***************************************************************************)
\* number of attempts recorded so far
RECURSIVE Recorded(_)
Recorded(map) ==
    IF map = <<>> THEN 0 ELSE Len(Head(map).results) + Recorded(Tail(map))

\* mutant: the guard on the webhook URL is missing
SkipNever(url) == FALSE

\* !this.webhookUrl
SkipNotification(url) == ~url

\* no call of truncateError is under way
NoTruncation == [error |-> <<>>, maxLength |-> 0, result |-> <<>>, done |-> FALSE]

EmptyCounts == [passed |-> 0, failed |-> 0, skipped |-> 0, flaky |-> 0, timedout |-> 0]

\* The fields after the constructor (with the field initialisers).
Constructed ==
    /\ webhookUrl \in BOOLEAN
    /\ phase = "constructed"
    /\ testAttempts = <<>>
    /\ testResults = EmptyCounts
    /\ failedTests = <<>>
    /\ flakyTests = <<>>
    /\ classified = [t \in {} |-> "Passed"]
    /\ messageCard = "none"
    /\ pc = "idle"
    /\ maxRetries = 0
    /\ attempt = 0
    /\ sends = 0
    /\ waitLog = <<>>
    /\ responses = <<>>
    /\ outcome = "None"
    /\ raised = FALSE
    /\ posted = <<>>
    /\ recordCalls = [t \in TestIds |-> 0]

\* The state after the constructor.
Init == Constructed /\ truncation = NoTruncation

\* onBegin(): only startTime is set.
OnBegin ==
    /\ phase = "constructed"
    /\ phase' = "running"
    /\ UNCHANGED <<webhookUrl, storeVars, deliveryVars, auxVars>>

\* onTestEnd(test, result)
OnTestEnd ==
    /\ phase = "running"
    /\ Recorded(testAttempts) < MaxEvents
    /\ \E t \in TestIds, st \in Statuses, rt \in RetryIndices :
          /\ testAttempts' = Record(testAttempts, t, [status |-> st, retry |-> rt])
          /\ recordCalls' = [recordCalls EXCEPT ![t] = @ + 1]
    /\ UNCHANGED <<webhookUrl, phase, testResults, failedTests, flakyTests,
                   classified, messageCard, deliveryVars, posted, truncation>>

\* onTestEnd(test, result) for an attempt the host cut short: TestResult.status
\* of @playwright/test/reporter also has the value 'interrupted'.
OnTestEndInterrupted ==
    /\ phase = "running"
    /\ Recorded(testAttempts) < MaxEvents
    /\ \E t \in TestIds, rt \in RetryIndices :
          /\ testAttempts' =
                Record(testAttempts, t, [status |-> "interrupted", retry |-> rt])
          /\ recordCalls' = [recordCalls EXCEPT ![t] = @ + 1]
    /\ UNCHANGED <<webhookUrl, phase, testResults, failedTests, flakyTests,
                   classified, messageCard, deliveryVars, posted, truncation>>

\* onEnd(result), up to the first await inside sendWebhookWithRetry.
OnEnd ==
    /\ phase = "running"
    /\ phase' = "ended"
    /\ IF SkipNotification(webhookUrl)
       THEN UNCHANGED <<storeVars, deliveryVars, posted>>
       ELSE LET sum == ProcessTestResults(testAttempts,
                          [testResults |-> testResults,
                           failedTests |-> failedTests,
                           flakyTests  |-> flakyTests,
                           classified  |-> classified])
            IN  /\ testResults' = sum.testResults
                /\ failedTests' = sum.failedTests
                /\ flakyTests' = sum.flakyTests
                /\ classified' = sum.classified
                /\ messageCard' = BuildMessageCard(sum.testResults,
                                                   sum.failedTests, sum.flakyTests)
                /\ maxRetries' = ON_END_MAX_RETRIES
                /\ EnterIteration(1, ON_END_MAX_RETRIES, messageCard')
                /\ UNCHANGED <<testAttempts, waitLog, responses, raised>>
    /\ UNCHANGED <<webhookUrl, recordCalls, truncation>>

\* One run of the reporter under the host's protocol:
\* onBegin, any number of onTestEnd, onEnd.
Next == OnBegin \/ OnTestEnd \/ OnEnd \/ Response \/ BackoffElapsed

Spec == Init /\ [][Next]_vars

\* A run that the host may interrupt: attempts of every TestResult.status.
InterruptNext ==
    OnBegin \/ OnTestEnd \/ OnTestEndInterrupted \/ OnEnd \/ Response \/ BackoffElapsed

InterruptSpec == Init /\ [][InterruptNext]_vars

\* onEnd called once more after the first call has returned: the same handler,
\* on the counters and lists the reporter holds by then.
OnEndAgain ==
    /\ phase = "ended"
    /\ pc \in {"idle", "done"}
    /\ phase' = "endedAgain"
    /\ IF SkipNotification(webhookUrl)
       THEN UNCHANGED <<storeVars, deliveryVars, posted>>
       ELSE LET sum == ProcessTestResults(testAttempts,
                          [testResults |-> testResults,
                           failedTests |-> failedTests,
                           flakyTests  |-> flakyTests,
                           classified  |-> classified])
            IN  /\ testResults' = sum.testResults
                /\ failedTests' = sum.failedTests
                /\ flakyTests' = sum.flakyTests
                /\ classified' = sum.classified
                /\ messageCard' = BuildMessageCard(sum.testResults,
                                                   sum.failedTests, sum.flakyTests)
                /\ maxRetries' = ON_END_MAX_RETRIES
                \* a new call of sendWebhookWithRetry: attempt 1 <= 3 is posted
                /\ attempt' = 1
                /\ pc' = "awaiting"
                /\ sends' = sends + 1
                /\ outcome' = "None"
                /\ posted' = Append(posted, PostBody(messageCard', 1))
                /\ UNCHANGED <<testAttempts, waitLog, responses, raised>>
    /\ UNCHANGED <<webhookUrl, recordCalls, truncation>>

\* answers that end a delivery at its first attempt
FinalAnswers == {HttpResponse(200), HttpResponse(404)}

\* The webhook answers the current attempt with a final answer.
Answer ==
    /\ pc = "awaiting"
    /\ \E r \in FinalAnswers : AfterPost(r)

\* A host that calls onEnd twice, with a webhook that answers each delivery at once.
ReEndNext == OnBegin \/ OnTestEnd \/ OnEnd \/ Answer \/ OnEndAgain

ReEndSpec == Init /\ [][ReEndNext]_vars

\* the entry of a test that ended st on its only attempt
FailingEntry(k, st) == [id |-> k, results |-> <<[status |-> st, retry |-> 0]>>]

\* the entry of a test that failed and then passed on its retry
FlakyEntry(k) ==
    [id |-> k, results |-> <<[status |-> "failed", retry |-> 0],
                             [status |-> "passed", retry |-> 1]>>]

\* The store after the onTestEnd calls of a large run: n tests that end failed
\* or timedOut (alternating, timedOut on numbers of the given parity) and m
\* flaky tests, the flaky ones recorded first or last. Tests are numbered in
\* the order of their first onTestEnd call.
LargeRunStore(n, m, flakyFirst, parity) ==
    [k \in 1..(n + m) |->
        LET isFlaky == IF flakyFirst THEN k <= m ELSE k > n
        IN  IF isFlaky THEN FlakyEntry(k)
            ELSE FailingEntry(k, IF k % 2 = parity THEN "timedOut" ELSE "failed")]

\* A large run just before onEnd.
LargeRunInit ==
    /\ webhookUrl \in BOOLEAN
    /\ phase = "running"
    /\ \E n \in 0..MaxFailedListed, m \in 0..MaxFlakyListed,
          flakyFirst \in BOOLEAN, parity \in {0, 1} :
              testAttempts = LargeRunStore(n, m, flakyFirst, parity)
    /\ testResults = EmptyCounts
    /\ failedTests = <<>>
    /\ flakyTests = <<>>
    /\ classified = [t \in {} |-> "Passed"]
    /\ messageCard = "none"
    /\ pc = "idle"
    /\ maxRetries = 0
    /\ attempt = 0
    /\ sends = 0
    /\ waitLog = <<>>
    /\ responses = <<>>
    /\ outcome = "None"
    /\ raised = FALSE
    /\ posted = <<>>
    /\ recordCalls = [t \in TestIds |-> 0]
    /\ truncation = NoTruncation

\* onEnd of a large run, with a webhook that answers at once.
LargeRunNext == OnEnd \/ Answer

LargeRunSpec == LargeRunInit /\ [][LargeRunNext]_vars

\* all strings over Chars of length n
StringsOfLen(n) == [1..n -> Chars]

\* truncateError called on its own, for every message and length up to the bounds.
TruncateInit ==
    /\ Constructed
    /\ \E n \in 0..MaxErrorLen, m \in 0..MaxTruncLen :
          \E e \in StringsOfLen(n) :
              truncation = [error |-> e, maxLength |-> m, result |-> <<>>, done |-> FALSE]

\* the call returns
TruncateErrorCall ==
    /\ ~truncation.done
    /\ truncation' = [truncation EXCEPT
            !.result = TruncateError(truncation.error, truncation.maxLength),
            !.done = TRUE]
    /\ UNCHANGED <<webhookUrl, phase, storeVars, deliveryVars, posted, recordCalls>>

TruncateNext == TruncateErrorCall

TruncateSpec == TruncateInit /\ [][TruncateNext]_vars

\* sendWebhookWithRetry called on its own, for every maxRetries up to the bound.
DeliveryInit == Init /\ webhookUrl

DeliveryNext == SendWebhookWithRetry \/ Response \/ BackoffElapsed

DeliverySpec == DeliveryInit /\ [][DeliveryNext]_vars

\* Each request ends (30 s timeout at the latest) and each timer fires.
DeliveryFairSpec ==
    DeliverySpec /\ WF_vars(Response) /\ WF_vars(BackoffElapsed)

(***************************************************************************)
(* Vocabulary of the properties, stated independently of the operators     *)
(* above.                                                                  *)
(***************************************************************************)
Is2xx(r) == r.type = "http" /\ r.status \in 200..299
Is4xx(r) == r.type = "http" /\ r.status \in 400..499
\* HTTP >= 500 or a transport-level failure
Retryable(r) == (r.type = "http" /\ r.status >= 500) \/ r.type \in {"axios", "error"}

Got4xx == \E i \in 1..Len(responses) : Is4xx(responses[i])
AllRetryable(n) == \A i \in 1..n : Retryable(responses[i])
Terminal == pc = "done" /\ outcome \in {"Delivered", "Abandoned"}

\* the documented backoff table
BackoffTable(a) ==
    IF a = 1 THEN 1000 ELSE IF a = 2 THEN 2000 ELSE IF a = 3 THEN 4000 ELSE 5000

RECURSIVE ExpectedWaits(_, _, _)
\* the waits due after attempts a..Len(resp): one per retryable failure
\* that is not the last attempt of the budget
ExpectedWaits(resp, a, max) ==
    IF a > Len(resp) THEN <<>>
    ELSE (IF Retryable(resp[a]) /\ a < max THEN <<BackoffTable(a)>> ELSE <<>>)
            \o ExpectedWaits(resp, a + 1, max)

(***************************************************************************)
(* C1. A 4xx answer ends the delivery at once as Abandoned: the send that  *)
(* got it is the last one, no wait is taken after it whatever budget is    *)
(* left, and a 4xx on the first attempt means 1 send and 0 waits.          *)
(***************************************************************************)
C1_ClientErrorAbandons ==
    /\ [](Got4xx =>
            /\ Terminal /\ outcome = "Abandoned"
            /\ Is4xx(responses[Len(responses)])
            /\ sends = Len(responses)
            /\ (Len(responses) = 1 => sends = 1 /\ waitLog = <<>>))
    /\ [][Got4xx => sends' = sends /\ waitLog' = waitLog /\ responses' = responses]_vars

\* a 4xx on the second of five attempts ended the delivery
C1_Witness ==
    /\ maxRetries = 5
    /\ Len(responses) = 2 /\ Retryable(responses[1]) /\ Is4xx(responses[2])
    /\ sends = 2 /\ Len(waitLog) = 1 /\ outcome = "Abandoned"

(***************************************************************************)
(* C2. k retryable failures followed by a 2xx, k < maxRetries, give k+1    *)
(* sends, k waits and Delivered, and nothing is sent after Delivered;      *)
(* [500, 500, 200] waits 1000 ms and then 2000 ms.                         *)
(***************************************************************************)
C2_SuccessDelivers ==
    /\ [](\A k \in 0..(maxRetries - 1) :
            (Len(responses) = k + 1 /\ AllRetryable(k) /\ Is2xx(responses[k + 1]))
                => /\ sends = k + 1
                   /\ Len(waitLog) = k
                   /\ Terminal /\ outcome = "Delivered"
                   /\ (k = 2 => waitLog = <<1000, 2000>>))
    /\ [][outcome = "Delivered" => sends' = sends /\ outcome' = outcome]_vars

\* [500, timeout, 200] with maxRetries = 3
C2_Witness ==
    /\ maxRetries = 3
    /\ responses = <<HttpResponse(500), TransportError("ECONNABORTED"), HttpResponse(200)>>
    /\ sends = 3 /\ outcome = "Delivered"

(***************************************************************************)
(* C3. When every attempt ends in a retryable failure, maxRetries sends    *)
(* are made, maxRetries - 1 waits are taken (none after the last attempt)  *)
(* and the outcome is Abandoned.                                           *)
(***************************************************************************)
C3_ExhaustionAbandons ==
    (maxRetries >= 1 /\ Len(responses) = maxRetries /\ AllRetryable(maxRetries))
        => /\ sends = maxRetries
           /\ Len(waitLog) = maxRetries - 1
           /\ Terminal /\ outcome = "Abandoned"

\* three timeouts in a row with maxRetries = 3
C3_Witness ==
    /\ maxRetries = 3
    /\ responses = <<TransportError("ECONNABORTED"), TransportError("ECONNABORTED"),
                     TransportError("ECONNABORTED")>>
    /\ pc = "done"

(***************************************************************************)
(* C4. The wait after a retryable failure on attempt a < maxRetries is     *)
(* min(1000 * 2^(a-1), 5000) ms: 1000, 2000, 4000, then 5000; no wait is   *)
(* longer than 5000 ms.                                                    *)
(***************************************************************************)
C4_BackoffSchedule ==
    /\ waitLog = ExpectedWaits(responses, 1, maxRetries)
    /\ \A i \in 1..Len(waitLog) : waitLog[i] <= 5000
    /\ (pc = "waiting" => waitLog[Len(waitLog)] = BackoffTable(attempt))

\* four failures in a row: the fourth wait is capped
C4_Witness == waitLog = <<1000, 2000, 4000, 5000>>

(***************************************************************************)
(* C5. In a run the payload is sent at most maxRetries times, which is 3   *)
(* as onEnd calls it, whatever the endpoint answers.                       *)
(***************************************************************************)
C5_SendsBounded ==
    /\ sends <= 3
    /\ (pc # "idle" => maxRetries = 3 /\ sends <= maxRetries)

\* the whole budget was used
C5_Witness == phase = "ended" /\ sends = 3 /\ pc = "done"

(***************************************************************************)
(* C6. Once delivery has begun it reaches a terminal outcome, Delivered or *)
(* Abandoned, and the outcome then stays; given that every request ends    *)
(* and every backoff timer fires.                                          *)
(***************************************************************************)
C6_DeliveryTerminates ==
    /\ [](pc # "idle" => <>Terminal)
    /\ [][outcome # "None" => outcome' = outcome /\ pc' = "done"]_vars

\* the longest delivery: five failures, four waits
C6_Witness ==
    /\ Terminal /\ maxRetries = 5 /\ Len(responses) = 5 /\ Len(waitLog) = 4

(***************************************************************************)
(* C7. No failure of a send attempt reaches the caller: whatever each      *)
(* attempt ends in, sendWebhookWithRetry and onEnd return normally.        *)
(***************************************************************************)
C7_NoErrorEscapes ==
    /\ ~raised
    /\ (pc = "done" => Terminal)

\* a run whose three attempts ended in a non-axios error, a timeout and a 500
C7_Witness ==
    /\ phase = "ended" /\ pc = "done"
    /\ responses = <<OtherError, TransportError("ECONNABORTED"), HttpResponse(500)>>

(***************************************************************************)
(* C8. Without a configured webhook no send attempt is ever made, and the  *)
(* run ends without error.                                                 *)
(***************************************************************************)
C8_NoUrlNoSend ==
    ~webhookUrl => /\ sends = 0 /\ responses = <<>> /\ waitLog = <<>>
                   /\ pc = "idle" /\ ~raised

\* a run with recorded attempts ended with no webhook configured
C8_Witness == ~webhookUrl /\ phase = "ended" /\ Recorded(testAttempts) >= 2

(***************************************************************************)
(* Classification, as seen after processTestResults has run.               *)
(***************************************************************************)
Processed == phase = "ended" /\ webhookUrl

\* status of the attempt recorded last for entry i
LastStatus(i) == testAttempts[i].results[Len(testAttempts[i].results)].status

\* number of tests whose last-recorded attempt has status st
EndingIn(st) == Cardinality({i \in 1..Len(testAttempts) : LastStatus(i) = st})

FailedTitles == {failedTests[j].title : j \in 1..Len(failedTests)}

C10_FlakyRule ==
    Processed =>
        \A i \in 1..Len(testAttempts) :
            LET id == testAttempts[i].id
                results == testAttempts[i].results
                flakyCase ==
                    /\ Len(results) > 1
                    /\ \E k \in 1..Len(results) :
                          results[k].status \in {"failed", "timedOut"}
            IN  LastStatus(i) = "passed" =>
                    /\ id \in DOMAIN classified
                    /\ classified[id] = (IF flakyCase THEN "Flaky" ELSE "Passed")
                    /\ flakyCase <=>
                          \E j \in 1..Len(flakyTests) :
                              /\ flakyTests[j].title = id
                              /\ flakyTests[j].attempts = Len(results)
                    /\ \A j \in 1..Len(flakyTests) :
                          flakyTests[j].title = id =>
                              flakyTests[j].attempts = Len(results)

\* timedOut then passed is Flaky with 2 attempts; a single pass is Passed
C10_Witness ==
    /\ Processed
    /\ \E i, j \in 1..Len(testAttempts) :
          /\ Len(testAttempts[i].results) = 2
          /\ testAttempts[i].results[1].status = "timedOut"
          /\ LastStatus(i) = "passed"
          /\ classified[testAttempts[i].id] = "Flaky"
          /\ Len(testAttempts[j].results) = 1
          /\ LastStatus(j) = "passed"
          /\ classified[testAttempts[j].id] = "Passed"
    /\ flakyTests = <<[title |-> testAttempts[1].id, attempts |-> 2]>>
    /\ testResults.flaky = 1 /\ testResults.passed = 1

(***************************************************************************)
(* C11. After run end the five counters add up to the number of distinct   *)
(* test identities observed: every identity is counted exactly once.       *)
(***************************************************************************)
C11_CountsCoverIdentities ==
    Processed =>
        testResults.passed + testResults.failed + testResults.skipped
            + testResults.flaky + testResults.timedout
          = Cardinality({testAttempts[i].id : i \in 1..Len(testAttempts)})

(***************************************************************************)
(* C12. The overall status is FAILED iff Failed + TimedOut > 0, otherwise  *)
(* UNSTABLE iff Flaky > 0, otherwise PASSED, and the theme colour is the   *)
(* one of that status (dc3545 / ffc107 / 28a745). Three clean passes, one  *)
(* fail-then-pass and one fail-fail give Passed 3, Flaky 1, Failed 1,      *)
(* Skipped 0, TimedOut 0 and FAILED.                                       *)
(***************************************************************************)
ColourOf(status) ==
    IF status = "FAILED" THEN "dc3545"
    ELSE IF status = "UNSTABLE" THEN "ffc107"
    ELSE "28a745"

ExpectedStatus(counts) ==
    IF counts.failed + counts.timedout > 0 THEN "FAILED"
    ELSE IF counts.flaky > 0 THEN "UNSTABLE"
    ELSE "PASSED"

Attempt(st, rt) == [status |-> st, retry |-> rt]

\* the five tests of the end-to-end scenario
ScenarioStore ==
    <<[id |-> "a", results |-> <<Attempt("passed", 0)>>],
      [id |-> "b", results |-> <<Attempt("passed", 0)>>],
      [id |-> "c", results |-> <<Attempt("passed", 0)>>],
      [id |-> "d", results |-> <<Attempt("failed", 0), Attempt("passed", 1)>>],
      [id |-> "e", results |-> <<Attempt("failed", 0), Attempt("failed", 1)>>]>>

ScenarioSummary ==
    ProcessTestResults(ScenarioStore,
        [testResults |-> EmptyCounts, failedTests |-> <<>>, flakyTests |-> <<>>,
         classified |-> [t \in {} |-> "Passed"]])

ScenarioCard ==
    BuildMessageCard(ScenarioSummary.testResults, ScenarioSummary.failedTests,
                     ScenarioSummary.flakyTests)

C12_StatusAndColour ==
    /\ Processed =>
          /\ messageCard.summary = ExpectedStatus(testResults)
          /\ messageCard.themeColor = ColourOf(ExpectedStatus(testResults))
    /\ ScenarioSummary.testResults =
          [passed |-> 3, failed |-> 1, skipped |-> 0, flaky |-> 1, timedout |-> 0]
    /\ ScenarioCard.summary = "FAILED"
    /\ ScenarioCard.themeColor = "dc3545"

\* a run with one Failed and one Flaky test is FAILED and red
C12_Witness ==
    /\ Processed
    /\ testResults.failed = 1 /\ testResults.flaky = 1
    /\ messageCard.summary = "FAILED" /\ messageCard.themeColor = "dc3545"

(***************************************************************************)
(* C13. truncateError returns the message unchanged when it is no longer   *)
(* than maxLength, and otherwise its first maxLength - 3 characters        *)
(* followed by '...'; for maxLength >= 3 the result is never longer than   *)
(* maxLength. A message of 250 characters cut at 200 is 197 characters     *)
(* plus '...', 200 in all.                                                 *)
(***************************************************************************)
LongMessage == [i \in 1..250 |-> "a"]

C13_TruncateError ==
    /\ truncation.done =>
          LET e == truncation.error
              n == truncation.maxLength
              r == truncation.result
          IN  /\ (Len(e) <= n => r = e)
              /\ (Len(e) > n /\ n >= 3 =>
                    /\ Len(r) = n
                    /\ \A i \in 1..(n - 3) : r[i] = e[i]
                    /\ \A i \in (n - 2)..n : r[i] = ".")
              /\ (n >= 3 => Len(r) <= n)
    /\ Len(TruncateError(LongMessage, ERROR_TRUNCATE_LENGTH)) = 200
    /\ TruncateError(LongMessage, ERROR_TRUNCATE_LENGTH)
          = [i \in 1..200 |-> IF i <= 197 THEN "a" ELSE "."]

\* a message of 5 characters cut at 4: one character and the ellipsis
C13_Witness ==
    /\ truncation.done
    /\ Len(truncation.error) = 5 /\ truncation.maxLength = 4
    /\ truncation.result = <<truncation.error[1], ".", ".", ".">>

\* the attempts recorded for testId, none if it has no entry
AttemptsOf(map, testId) == IF Has(map, testId) THEN ResultsOf(map, testId) ELSE <<>>

\* seq extends prefix at its end
IsPrefix(prefix, seq) ==
    /\ Len(prefix) <= Len(seq)
    /\ \A k \in 1..Len(prefix) : seq[k] = prefix[k]

(***************************************************************************)
(* C14. onTestEnd is a pure append: a step that records an attempt for an  *)
(* identity adds exactly that one attempt at the end of the identity's     *)
(* sequence (creating the sequence if absent) and leaves every other       *)
(* identity's sequence as it was; no step of the run removes, reorders or  *)
(* rewrites an attempt already recorded.                                   *)
(***************************************************************************)
C14_PureAppend ==
    [][/\ \A t \in TestIds :
             /\ Has(testAttempts, t) => Has(testAttempts', t)
             /\ IsPrefix(AttemptsOf(testAttempts, t), AttemptsOf(testAttempts', t))
       /\ \A i \in 1..Len(testAttempts) :
             i <= Len(testAttempts') /\ testAttempts'[i].id = testAttempts[i].id
       /\ \A t \in TestIds :
             recordCalls'[t] # recordCalls[t] =>
                 /\ Has(testAttempts', t)
                 /\ Len(AttemptsOf(testAttempts', t))
                       = Len(AttemptsOf(testAttempts, t)) + 1
                 /\ \A u \in TestIds \ {t} :
                       /\ Has(testAttempts', u) <=> Has(testAttempts, u)
                       /\ AttemptsOf(testAttempts', u) = AttemptsOf(testAttempts, u)
      ]_vars

\* a second attempt was appended to the first identity while another
\* identity holds its own attempt
C14_Witness ==
    /\ Len(testAttempts) = 2
    /\ Len(testAttempts[1].results) = 2
    /\ Len(testAttempts[2].results) = 1
    /\ testAttempts[1].results[1].status # testAttempts[1].results[2].status

(***************************************************************************)
(* C15. No append is lost: at every moment, and so at run end, the length  *)
(* of each identity's sequence equals the number of onTestEnd calls made   *)
(* for that identity, in whatever order the calls of different identities  *)
(* arrive; an identity has a sequence iff a call was made for it.          *)
(***************************************************************************)
C15_NoLostAppend ==
    \A t \in TestIds :
        /\ Len(AttemptsOf(testAttempts, t)) = recordCalls[t]
        /\ Has(testAttempts, t) <=> recordCalls[t] > 0

\* calls for two identities arrived in one run, which has ended
C15_Witness ==
    /\ phase = "ended"
    /\ recordCalls["t1"] = 2 /\ recordCalls["t2"] = 1
    /\ testAttempts[1].id = "t2"
    /\ Len(AttemptsOf(testAttempts, "t1")) = 2
    /\ Len(AttemptsOf(testAttempts, "t2")) = 1

\* the statuses of a sequence of attempts, in arrival order
StatusesOf(results) == [k \in 1..Len(results) |-> results[k].status]

\* the class that a sequence of statuses calls for
ClassOfStatuses(sts) ==
    LET last == sts[Len(sts)]
    IN  CASE last = "failed" -> "Failed"
          [] last = "timedOut" -> "TimedOut"
          [] last = "skipped" -> "Skipped"
          [] last = "passed" ->
                IF Len(sts) > 1 /\ \E k \in 1..Len(sts) : sts[k] \in {"failed", "timedOut"}
                THEN "Flaky" ELSE "Passed"

(***************************************************************************)
(* C16. Classification follows arrival order, not retry indices: the class *)
(* of every test is a function of the statuses of its attempts in the      *)
(* order they were appended, the last-appended one deciding Passed (or     *)
(* Flaky) / Failed / Skipped / TimedOut, also when the retry indices of    *)
(* the attempts are not increasing.                                        *)
(***************************************************************************)
C16_ArrivalOrderDecides ==
    Processed =>
        \A i \in 1..Len(testAttempts) :
            /\ testAttempts[i].id \in DOMAIN classified
            /\ classified[testAttempts[i].id]
                  = ClassOfStatuses(StatusesOf(testAttempts[i].results))

\* retry 1 failed arrived before retry 0 passed: the test is Flaky, not Failed
C16_Witness ==
    /\ Processed
    /\ \E i \in 1..Len(testAttempts) :
          /\ testAttempts[i].results
                = <<[status |-> "failed", retry |-> 1], [status |-> "passed", retry |-> 0]>>
          /\ classified[testAttempts[i].id] = "Flaky"
    /\ testResults.flaky = 1 /\ testResults.failed = 0

(***************************************************************************)
(* C17. Within one delivery every send after the first is preceded by      *)
(* exactly one backoff wait since the previous send: while a request is in *)
(* flight the number of waits made so far is the number of sends less one, *)
(* whatever the answers to the earlier attempts were.                      *)
(***************************************************************************)
C17_WaitBeforeEveryResend ==
    pc = "awaiting" => Len(waitLog) = sends - 1

(***************************************************************************)
(* C18. The run summary is created once and is stable: a second onEnd over *)
(* the same attempt store leaves the five counters and the failed and      *)
(* flaky detail lists as the first onEnd left them.                        *)
(***************************************************************************)
C18_SecondOnEndIdempotent ==
    [][phase = "ended" /\ phase' = "endedAgain" =>
          /\ testResults' = testResults
          /\ failedTests' = failedTests
          /\ flakyTests' = flakyTests
      ]_vars

(***************************************************************************)
(* C19. Delivery never changes the summary: while a request is in flight   *)
(* or a backoff wait is running no step changes the attempt store, the     *)
(* counters, the detail lists or the built card, and every send of the run *)
(* transmits the card that was built before the first attempt.             *)
(***************************************************************************)
C19_DeliveryKeepsSummary ==
    /\ [](Len(posted) = sends /\ \A i \in 1..Len(posted) : posted[i] = messageCard)
    /\ [][(pc \in {"awaiting", "waiting"}) => UNCHANGED storeVars]_vars

\* three sends with failures and waits in between, all of the same card for
\* a run with one failed test
C19_Witness ==
    /\ Processed /\ pc = "done"
    /\ sends = 3 /\ Len(waitLog) = 2
    /\ testResults.failed = 1
    /\ posted = <<messageCard, messageCard, messageCard>>
    /\ messageCard = BuildMessageCard(testResults, failedTests, flakyTests)

\* the positions of the detail list that name testId
EntriesFor(list, testId) == {j \in 1..Len(list) : list[j].title = testId}

(***************************************************************************)
(* C20. After classification the failed-test list has exactly one entry    *)
(* per test classified Failed or TimedOut (its length is failed +          *)
(* timedout), the flaky list has exactly one entry per test classified     *)
(* Flaky (its length is flaky), and tests classified Passed or Skipped     *)
(* have no entry in either list.                                           *)
(***************************************************************************)
C20_DetailListsMatchCounts ==
    Processed =>
        /\ Len(failedTests) = testResults.failed + testResults.timedout
        /\ Len(flakyTests) = testResults.flaky
        /\ \A i \in 1..Len(testAttempts) :
              LET id == testAttempts[i].id
                  c == classified[id]
              IN  /\ Cardinality(EntriesFor(failedTests, id))
                        = (IF c \in {"Failed", "TimedOut"} THEN 1 ELSE 0)
                  /\ Cardinality(EntriesFor(flakyTests, id))
                        = (IF c = "Flaky" THEN 1 ELSE 0)
        /\ \A j \in 1..Len(failedTests) : Has(testAttempts, failedTests[j].title)
        /\ \A j \in 1..Len(flakyTests) : Has(testAttempts, flakyTests[j].title)

\* one test failed, the other was flaky: one entry in each list
C20_Witness ==
    /\ Processed
    /\ testResults.failed + testResults.timedout = 1 /\ testResults.flaky = 1
    /\ Len(failedTests) = 1 /\ Len(flakyTests) = 1
    /\ failedTests[1].title # flakyTests[1].title

\* the tests of the store that were classified as one of the classes, in
\* store order
ClassifiedAs(classes) ==
    {i \in 1..Len(testAttempts) : classified[testAttempts[i].id] \in classes}

\* list names exactly the tests at the given store positions, in store order
ListsInOrder(list, positions) ==
    /\ Len(list) = Cardinality(positions)
    /\ \A j \in 1..Len(list) :
          \E i \in positions :
              /\ list[j].title = testAttempts[i].id
              /\ Cardinality({h \in positions : h < i}) = j - 1

(***************************************************************************)
(* C21. In the built card the failed-tests block is present iff some test  *)
(* is failed or timed out and lists the first min(n, 10) of the n failed   *)
(* details in classification order; the "more" note is present iff n > 10 *)
(* and then counts n - 10; the flaky-tests block is present iff some test  *)
(* is flaky and lists the first min(m, 5) of the m flaky details.          *)
(***************************************************************************)
C21_DisplayCaps ==
    Processed =>
        LET n == Len(failedTests)
            m == Len(flakyTests)
            shownFailed == IF n < 10 THEN n ELSE 10
            shownFlaky == IF m < 5 THEN m ELSE 5
        IN  /\ ListsInOrder(failedTests, ClassifiedAs({"Failed", "TimedOut"}))
            /\ ListsInOrder(flakyTests, ClassifiedAs({"Flaky"}))
            /\ messageCard.failedBlock <=> testResults.failed + testResults.timedout >= 1
            /\ Len(messageCard.failedFacts) = shownFailed
            /\ \A j \in 1..shownFailed : messageCard.failedFacts[j] = failedTests[j]
            /\ messageCard.moreFailed > 0 <=> n > 10
            /\ n > 10 => messageCard.moreFailed = n - 10
            /\ messageCard.flakyBlock <=> testResults.flaky >= 1
            /\ Len(messageCard.flakyFacts) = shownFlaky
            /\ \A j \in 1..shownFlaky : messageCard.flakyFacts[j] = flakyTests[j]

\* 12 failed or timed-out tests and 7 flaky ones: 10 and 5 are listed, 2 more noted
C21_Witness ==
    /\ Processed
    /\ Len(failedTests) = 12 /\ Len(flakyTests) = 7
    /\ testResults.failed = 6 /\ testResults.timedout = 6 /\ testResults.flaky = 7
    /\ messageCard.failedBlock /\ Len(messageCard.failedFacts) = 10
    /\ messageCard.failedFacts[10] = failedTests[10]
    /\ messageCard.moreFailed = 2
    /\ messageCard.flakyBlock /\ Len(messageCard.flakyFacts) = 5

====
